---- MODULE Spec2Model ----
(***************************************************************************)
(* A model of app.py, the Streamlit code-review assistant.                 *)
(*                                                                         *)
(* One run of the script is one page render: the input widgets are read,   *)
(* the code to analyze is resolved (line 99), the analysis sections are    *)
(* rendered top to bottom (lines 101-127) and, when the "Ask a Code        *)
(* Question" button was pressed, the voice path runs (lines 147-157).      *)
(* Strings are TLA+ strings; Python's str and re operations are modelled   *)
(* character by character.  External collaborators (the generative model,  *)
(* requests.get, subprocess.run, radon, the speech services) are inputs    *)
(* of the steps that call them: each step draws the collaborator's         *)
(* outcome (a value, or an exception) from a small set.                    *)
(***************************************************************************)
EXTENDS Integers, Sequences, FiniteSets, TLC

(***************************************************************************)
(* Python values.  An optional value (None or a value) is a sequence of    *)
(* length 0 or 1.                                                          *)
(***************************************************************************)
None == <<>>

Some(v) == <<v>>

\* bool(x) of an optional string: None and "" are falsy.
Truthy(opt) == opt # None /\ opt[1] # ""

(***************************************************************************)
(* str operations.                                                         *)
(***************************************************************************)
Char(s, i) == SubSeq(s, i, i)

UpperChars == "ABCDEFGHIJKLMNOPQRSTUVWXYZ"

LowerChars == "abcdefghijklmnopqrstuvwxyz"

UpperSet == { Char(UpperChars, i) : i \in 1..26 }

LowerOf == [ c \in UpperSet |->
               Char(LowerChars, CHOOSE i \in 1..26 : Char(UpperChars, i) = c) ]

\* One character, case-folded as re.IGNORECASE compares it.
LowerChar(c) == IF c \in UpperSet THEN LowerOf[c] ELSE c

RECURSIVE ToLower(_)
ToLower(s) == IF s = "" THEN "" ELSE LowerChar(Char(s, 1)) \o ToLower(Tail(s))

\* str.startswith
StartsWith(s, prefix) ==
    Len(s) >= Len(prefix) /\ SubSeq(s, 1, Len(prefix)) = prefix

\* str.replace(old, new): every non-overlapping occurrence, left to right.
RECURSIVE StrReplace(_, _, _)
StrReplace(s, old, new) ==
    IF Len(s) < Len(old) THEN s
    ELSE IF StartsWith(s, old)
         THEN new \o StrReplace(SubSeq(s, Len(old) + 1, Len(s)), old, new)
         ELSE Char(s, 1) \o StrReplace(Tail(s), old, new)

\* The characters str.strip() and the regex class \s remove or match.
IsSpace(c) == c \in {" ", "\t", "\n", "\r"}

RECURSIVE LStrip(_)
LStrip(s) == IF s # "" /\ IsSpace(Char(s, 1)) THEN LStrip(Tail(s)) ELSE s

RECURSIVE RStrip(_)
RStrip(s) ==
    IF s # "" /\ IsSpace(Char(s, Len(s)))
    THEN RStrip(SubSeq(s, 1, Len(s) - 1))
    ELSE s

\* Strip as it would be were .strip() forgotten on line 99.
Strip_Forgotten(s) == s

\* str.strip()
Strip(s) == RStrip(LStrip(s))

\* "\n".join(items)
RECURSIVE JoinLines(_)
JoinLines(items) ==
    IF items = <<>> THEN ""
    ELSE IF Len(items) = 1 THEN items[1]
    ELSE items[1] \o "\n" \o JoinLines(Tail(items))

(***************************************************************************)
(* re.search.  A pattern is a set of alternatives (the branches of a       *)
(* top-level |); an alternative is a sequence of items:                    *)
(*   [k |-> "lit",  s |-> str]   the literal characters str                *)
(*   [k |-> "any*"]              .*   (. does not match a newline)         *)
(*   [k |-> "not",  s |-> c]     [^c] (matches a newline as well)          *)
(*   [k |-> "ws+"]               \s+                                       *)
(* A group without a quantifier or back-reference, as in (SELECT ...),     *)
(* does not change what matches and is not represented.                    *)
(***************************************************************************)
Lit(s) == [k |-> "lit", s |-> s]

AnyStar == [k |-> "any*"]

NotChar(c) == [k |-> "not", s |-> c]

WsPlus == [k |-> "ws+"]

Fold(s, ignorecase) == IF ignorecase THEN ToLower(s) ELSE s

\* Under (?i) the pattern's characters and the text's are compared
\* case-folded.
FoldItem(it, ic) == IF it.k \in {"lit", "not"} THEN [it EXCEPT !.s = Fold(@, ic)] ELSE it

FoldItems(items, ic) == [ i \in 1..Len(items) |-> FoldItem(items[i], ic) ]

\* Does items[k..] match s starting at position j?  The matcher backtracks
\* over the lengths a repetition may take, as re does.
RECURSIVE MatchHere(_, _, _, _)
MatchHere(items, k, s, j) ==
    IF k > Len(items) THEN TRUE
    ELSE LET it == items[k] IN
        CASE it.k = "lit" ->
               /\ j + Len(it.s) - 1 <= Len(s)
               /\ SubSeq(s, j, j + Len(it.s) - 1) = it.s
               /\ MatchHere(items, k + 1, s, j + Len(it.s))
          [] it.k = "any*" ->
               \/ MatchHere(items, k + 1, s, j)
               \/ /\ j <= Len(s)
                  /\ Char(s, j) # "\n"
                  /\ MatchHere(items, k, s, j + 1)
          [] it.k = "not" ->
               /\ j <= Len(s)
               /\ Char(s, j) # it.s
               /\ MatchHere(items, k + 1, s, j + 1)
          [] it.k = "ws+" ->
               /\ j <= Len(s)
               /\ IsSpace(Char(s, j))
               /\ \/ MatchHere(items, k + 1, s, j + 1)
                  \/ MatchHere(items, k, s, j + 1)

\* re.search(pattern, s) is not None; ic is the (?i) flag.
ReSearch(alternatives, ic, s) ==
    LET t == Fold(s, ic) IN
    \E a \in alternatives :
      \E j \in 1..(Len(s) + 1) : MatchHere(FoldItems(a, ic), 1, t, j)

(***************************************************************************)
(* Bounds of the model and the inputs a render may be given.               *)
(***************************************************************************)
\* Script runs (page renders) of one server process that are followed.
MaxRenders == 2

\* requests: the status fetch_github_code accepts.
HTTP_OK == 200

\* os.getenv("GOOGLE_API_KEY"): unset, set to the empty string, or set.
Keys == {None, Some(""), Some("AIza-key")}

VARIABLES
    GOOGLE_API_KEY,   \* line 16: read once when the process starts
    uploaded_file,    \* line 95: None or Some(the uploaded bytes)
    github_url,       \* line 96
    code_input,       \* line 97
    button,           \* line 147: was "Ask a Code Question" pressed
    code_to_analyze,  \* line 99: None until resolved
    question,         \* line 148
    answer,           \* line 150
    pc,               \* the statement the script run is at
    page,             \* the st.* elements rendered so far, in order
    calls,            \* the components invoked so far, in order
    prompts,          \* the prompts sent to the generative model, in order
    fetched,          \* the URLs requests.get was called with, in order
    procs,            \* the argv of every subprocess started, in order
    files,            \* the temporary files that exist on disk
    error,            \* the exception that ended the script run, "" if none
    renders,          \* the number of this script run
    last              \* the observation of a direct call (unit harness)

vars == <<GOOGLE_API_KEY, uploaded_file, github_url, code_input, button,
          code_to_analyze, question, answer, pc, page, calls, prompts,
          fetched, procs, files, error, renders, last>>

(***************************************************************************)
(* The functions of app.py.  Each is an operator from its arguments and    *)
(* the outcome of the collaborator it calls to a record of what it         *)
(* returns (ret), the exception it lets escape (exc, "" if none) and its   *)
(* side effects.                                                           *)
(***************************************************************************)
\* genai: model.generate_content returns a response (whose text may be
\* empty), returns a falsy response, or raises (no network, quota, invalid
\* key).
ModelOutcomes ==
    { [kind |-> "text", text |-> "Suggestions: rename f."],
      [kind |-> "text", text |-> ""],
      [kind |-> "falsy"],
      [kind |-> "raise", exc |-> "ServiceUnavailable"] }

ReviewPrompt(code) ==
    "Review this code and suggest improvements:\n\n" \o code
        \o "\n\nProvide suggestions followed by an improved version of the code."

UnitTestPrompt(code) ==
    "Generate unit tests for this code:\n\n" \o code
        \o "\n\nUse standard unit testing framework."

\* The guard as it would be were it written "GOOGLE_API_KEY is None".
KeyMissing_OnlyNone == GOOGLE_API_KEY = None

\* The credential guard of lines 21 and 52 (not GOOGLE_API_KEY).
KeyMissing == ~Truthy(GOOGLE_API_KEY)

\* Lines 24-28 and 55-59: one generate_content call and what comes back.
AskModel(prompt, outcome) ==
    [ ret     |-> CASE outcome.kind = "text"  -> outcome.text
                    [] outcome.kind = "falsy" -> "Error fetching response."
                    [] OTHER -> "",
      exc     |-> IF outcome.kind = "raise" THEN outcome.exc ELSE "",
      prompts |-> <<prompt>> ]

analyze_code(code, outcome) ==
    IF KeyMissing
    THEN [ ret     |-> "Error: API key not found. Please check .env file.",
           exc     |-> "",
           prompts |-> <<>> ]
    ELSE AskModel(ReviewPrompt(code), outcome)

generate_unit_tests(code, outcome) ==
    IF KeyMissing
    THEN [ ret     |-> "Error: API key missing!",
           exc     |-> "",
           prompts |-> <<>> ]
    ELSE AskModel(UnitTestPrompt(code), outcome)

\* subprocess.run: the tool ran and printed stdout, the binary is absent
\* (FileNotFoundError), or the binary cannot be executed (PermissionError).
ProcOutcomes ==
    { [kind |-> "ran", stdout |-> "f.py:1:0: C0114: Missing module docstring"],
      [kind |-> "ran", stdout |-> ""],
      [kind |-> "raise", exc |-> "FileNotFoundError"],
      [kind |-> "raise", exc |-> "PermissionError"] }

\* The table as it would be were TypeScript sent to eslint as well.
LinterOf_TsToEslint(language) ==
    CASE language = "py" -> Some("pylint")
      [] language \in {"js", "ts"} -> Some("eslint")
      [] OTHER -> None

\* The linter binary of a language tag, None when the tag is not supported.
LinterOf(language) ==
    CASE language = "py" -> Some("pylint")
      [] language = "js" -> Some("eslint")
      [] OTHER -> None

run_linter(file_path, language, outcome) ==
    IF LinterOf(language) = None
    THEN [ ret |-> "Linting not supported for this language.",
           exc |-> "", argv |-> <<>> ]
    ELSE LET argv == <<LinterOf(language)[1], file_path>> IN
         CASE outcome.kind = "ran" ->
                [ ret |-> outcome.stdout, exc |-> "", argv |-> <<argv>> ]
           [] outcome.exc = "FileNotFoundError" ->
                [ ret |-> "Linter Error: Linter tool not found. Please install the necessary linter.",
                  exc |-> "", argv |-> <<argv>> ]
           [] OTHER ->
                [ ret |-> "", exc |-> outcome.exc, argv |-> <<argv>> ]

\* radon: cc_visit(code) returns the complexity of every block of a
\* Python text and raises SyntaxError on any other text.  The library is
\* outside the repository; the texts of the model that are Python are
\* listed with their blocks (f with one if: 2, g: 1), the others (the
\* strings of a failed fetch) do not parse.
TwoFunctions == "def f(x):\n  if x: return 1\ndef g(): pass"

CcOutcomes(code) ==
    CASE code = "def f(x):\n  return x" ->
           { [kind |-> "blocks", scores |-> <<1>>] }
      [] code = TwoFunctions ->
           { [kind |-> "blocks", scores |-> <<2, 1>>] }
      [] code = "password = \"x\"" ->
           { [kind |-> "blocks", scores |-> <<>>] }
      [] OTHER ->
           { [kind |-> "raise", msg |-> "invalid syntax (<unknown>, line 1)"] }

RECURSIVE SumSeq(_)
SumSeq(q) == IF q = <<>> THEN 0 ELSE q[1] + SumSeq(Tail(q))

\* Lines 43-49.  The value is the int 0, the float sum/len (kept as the
\* fraction), or the str of the exception.
calculate_complexity(code, outcome) ==
    IF outcome.kind = "raise"
    THEN [type |-> "str", text |-> outcome.msg]
    ELSE IF outcome.scores = <<>>
         THEN [type |-> "int", num |-> 0, den |-> 1]
         ELSE [type |-> "float", num |-> SumSeq(outcome.scores),
               den |-> Len(outcome.scores)]

\* The digit of d, and the decimal digits of a natural number.
Digit(d) == Char("0123456789", d + 1)

RECURSIVE Digits(_)
Digits(n) == IF n < 10 THEN Digit(n) ELSE Digits(n \div 10) \o Digit(n % 10)

\* format(value, ".2f") of line 116: a str has no format code 'f' and
\* raises ValueError; a number is rounded to hundredths (no value of the
\* model lies half way between two hundredths).
Format2f(value) ==
    IF value.type = "str"
    THEN [ret |-> "", exc |-> "ValueError"]
    ELSE LET h == (200 * value.num + value.den) \div (2 * value.den) IN
         [ret |-> Digits(h \div 100) \o "." \o Digit((h % 100) \div 10)
                     \o Digit(h % 10),
          exc |-> ""]

\* Lines 61-69: the three patterns and their findings, in the order checked.
SecretPattern ==
    { <<Lit("apikey")>>, <<Lit("password")>>, <<Lit("secret")>>, <<Lit("token")>> }

\* The SQL pattern as it would be without the [^?] after the =.
SqlPattern_AnyOperand ==
    { << Lit("SELECT "), AnyStar, Lit(" FROM "), AnyStar, Lit(" WHERE "),
         AnyStar, Lit("=") >> }

SqlPattern ==
    { << Lit("SELECT "), AnyStar, Lit(" FROM "), AnyStar, Lit(" WHERE "),
         AnyStar, Lit("="), NotChar("?") >> }

XssPattern == { << Lit("<script>"), AnyStar, Lit("</script>") >> }

SecretFinding == "Possible hardcoded API key or password detected."

SqlFinding == "Potential SQL Injection risk detected."

XssFinding == "Possible XSS vulnerability detected."

\* The list issues of detect_security_issues before it is joined.
SecurityIssues(code) ==
    (IF ReSearch(SecretPattern, TRUE, code) THEN <<SecretFinding>> ELSE <<>>)
    \o (IF ReSearch(SqlPattern, TRUE, code) THEN <<SqlFinding>> ELSE <<>>)
    \o (IF ReSearch(XssPattern, TRUE, code) THEN <<XssFinding>> ELSE <<>>)

detect_security_issues(code) ==
    LET issues == SecurityIssues(code) IN
    IF issues # <<>> THEN JoinLines(issues) ELSE "No security issues detected."

\* Lines 71-78.
check_test_coverage(outcome) ==
    LET argv == <<"pytest", "--cov">> IN
    CASE outcome.kind = "ran" ->
           [ ret |-> IF Strip(outcome.stdout) = ""
                     THEN "No test coverage data found. Ensure you have tests."
                     ELSE outcome.stdout,
             exc |-> "", argv |-> <<argv>> ]
      [] outcome.exc = "FileNotFoundError" ->
           [ ret |-> "Pytest or coverage tool not found. Please install pytest-cov.",
             exc |-> "", argv |-> <<argv>> ]
      [] OTHER -> [ ret |-> "", exc |-> outcome.exc, argv |-> <<argv>> ]

\* Lines 80-86.
NestedLoopPattern ==
    { << Lit("for "), AnyStar, Lit(" in range("), AnyStar, Lit("):\n"), WsPlus,
         Lit("for "), AnyStar, Lit(" in range("), AnyStar, Lit("):") >> }

ComprehensionPattern ==
    { << Lit("["), AnyStar, Lit("] for "), AnyStar, Lit(" in "), AnyStar >> }

PerformanceSuggestions(code) ==
    (IF ReSearch(NestedLoopPattern, FALSE, code)
     THEN <<"Nested loops detected. Consider optimizing with vectorization or caching.">>
     ELSE <<>>)
    \o (IF ReSearch(ComprehensionPattern, FALSE, code)
        THEN <<"List comprehension detected. Ensure it doesn't cause excessive memory usage.">>
        ELSE <<>>)

optimize_performance(code) ==
    LET suggestions == PerformanceSuggestions(code) IN
    IF suggestions # <<>> THEN JoinLines(suggestions)
    ELSE "No performance issues detected."

\* requests.get: a response with a status and a body, or an exception
\* (no route to the host, DNS failure).
HttpOutcomes ==
    { [kind |-> "response", status |-> 200, text |-> TwoFunctions],
      [kind |-> "response", status |-> 200, text |-> ""],
      [kind |-> "response", status |-> 204, text |-> ""],
      [kind |-> "response", status |-> 404, text |-> "404: Not Found"],
      [kind |-> "raise", exc |-> "ConnectionError"] }

\* Line 90: the URL that is fetched.
RawUrl(url) ==
    StrReplace(StrReplace(url, "github.com", "raw.githubusercontent.com"),
               "/blob", "")

\* fetch_github_code as it would be were every status below 400 accepted
\* (response.ok instead of status_code == 200).
fetch_github_code_Ok(url, outcome) ==
    IF StartsWith(url, "https://github.com/")
    THEN CASE outcome.kind = "response" ->
                [ ret |-> IF outcome.status < 400 THEN outcome.text
                          ELSE "Error fetching code.",
                  exc |-> "", gets |-> <<RawUrl(url)>> ]
           [] OTHER ->
                [ ret |-> "", exc |-> outcome.exc, gets |-> <<RawUrl(url)>> ]
    ELSE [ ret |-> "Invalid GitHub URL.", exc |-> "", gets |-> <<>> ]

\* Lines 88-93.
fetch_github_code(url, outcome) ==
    IF StartsWith(url, "https://github.com/")
    THEN CASE outcome.kind = "response" ->
                [ ret |-> IF outcome.status = HTTP_OK THEN outcome.text
                          ELSE "Error fetching code.",
                  exc |-> "", gets |-> <<RawUrl(url)>> ]
           [] OTHER ->
                [ ret |-> "", exc |-> outcome.exc, gets |-> <<RawUrl(url)>> ]
    ELSE [ ret |-> "Invalid GitHub URL.", exc |-> "", gets |-> <<>> ]

\* speech_recognition: sr.Microphone() raises OSError without an input
\* device; recognize_google returns the text or raises UnknownValueError
\* or RequestError.
SpeechOutcomes ==
    { [kind |-> "text", text |-> "what does f do"],
      [kind |-> "raise", exc |-> "UnknownValueError"],
      [kind |-> "raise", exc |-> "RequestError"],
      [kind |-> "raise", exc |-> "OSError"] }

\* Lines 129-139.  shown: what the function itself writes to the page.
recognize_speech(outcome) ==
    LET prompt == <<[st |-> "write", arg |-> "Speak your question..."]>> IN
    CASE outcome.kind = "text" ->
           [ ret |-> outcome.text, exc |-> "", shown |-> prompt ]
      [] outcome.exc = "UnknownValueError" ->
           [ ret |-> "Could not understand the audio.", exc |-> "",
             shown |-> prompt ]
      [] outcome.exc = "RequestError" ->
           [ ret |-> "Speech recognition service unavailable.", exc |-> "",
             shown |-> prompt ]
      [] OTHER -> [ ret |-> "", exc |-> outcome.exc, shown |-> <<>> ]

\* gTTS: tts.save writes the audio, or raises gTTSError when the
\* synthesis service cannot be reached.
TtsOutcomes == { [kind |-> "saved"], [kind |-> "raise", exc |-> "gTTSError"] }

\* Lines 141-145.  created: the temporary files the call leaves on disk
\* (NamedTemporaryFile(delete=False), never removed).  gTTS(text) asserts
\* that there is text to speak before the file is made.
text_to_speech(text, temp_audio, outcome) ==
    IF Strip(text) = ""
    THEN [ ret |-> "", exc |-> "AssertionError", created |-> {} ]
    ELSE IF outcome.kind = "saved"
         THEN [ ret |-> temp_audio, exc |-> "", created |-> {temp_audio} ]
         ELSE [ ret |-> "", exc |-> outcome.exc, created |-> {temp_audio} ]

\* bytes.decode("utf-8") of line 99.  ASCII bytes decode to their
\* characters; a byte above 0x7F that starts no valid sequence raises (the
\* files of the model hold no multi-byte sequence, only the lone byte 0xFF).
AsciiLow == " !\"#$%&'()*+,-./0123456789:;<=>?@ABCDEFGHIJKLMNOPQRSTUVWXYZ[\\]^_"

AsciiHigh == "abcdefghijklmnopqrstuvwxyz{|}~"

\* chr(b) for the bytes the files of the model hold.
Chr(b) ==
    CASE b = 10 -> "\n"
      [] b = 9 -> "\t"
      [] b >= 32 /\ b <= 95 -> Char(AsciiLow, b - 31)
      [] b >= 97 /\ b <= 126 -> Char(AsciiHigh, b - 96)

RECURSIVE DecodeAscii(_)
DecodeAscii(bytes) ==
    IF bytes = <<>> THEN "" ELSE Chr(bytes[1]) \o DecodeAscii(Tail(bytes))

Utf8Decode(bytes) ==
    IF \E i \in 1..Len(bytes) : bytes[i] > 127
    THEN [ret |-> "", exc |-> "UnicodeDecodeError"]
    ELSE [ret |-> DecodeAscii(bytes), exc |-> ""]

\* The expression of line 99 as it would be were the URL asked first.
ResolveInput_UrlFirst(file, url, text, outcome) ==
    IF url # ""
    THEN fetch_github_code(url, outcome)
    ELSE IF file # None
         THEN LET d == Utf8Decode(file[1]) IN
              [ret |-> d.ret, exc |-> d.exc, gets |-> <<>>]
         ELSE [ret |-> Strip(text), exc |-> "", gets |-> <<>>]

\* Line 99: the conditional expression that picks the code string.  An
\* UploadedFile object is truthy whatever its content.
ResolveInput(file, url, text, outcome) ==
    IF file # None
    THEN LET d == Utf8Decode(file[1]) IN
         [ret |-> d.ret, exc |-> d.exc, gets |-> <<>>]
    ELSE IF url # ""
         THEN fetch_github_code(url, outcome)
         ELSE [ret |-> Strip(text), exc |-> "", gets |-> <<>>]

\* tempfile.NamedTemporaryFile(delete=False, suffix=...).name: a fresh name.
TempName(suffix) == "/tmp/tmp" \o Digits(renders) \o suffix

(***************************************************************************)
(* The inputs of a script run.                                             *)
(***************************************************************************)
\* The bytes of "def f(x):\n  return x", the empty file, and a file that
\* is not UTF-8.
UploadedFiles ==
    { None,
      Some(<<100, 101, 102, 32, 102, 40, 120, 41, 58, 10, 32, 32, 114, 101,
             116, 117, 114, 110, 32, 120>>),
      Some(<<>>),
      Some(<<255>>) }

GithubUrls ==
    { "",
      "https://github.com/u/r/blob/main/f.py",
      "http://example.com/f.py" }

PastedTexts == { "", " \n", " password = \"x\"\n" }

(***************************************************************************)
(* The script run.                                                         *)
(***************************************************************************)
widgets == <<uploaded_file, github_url, code_input, button>>

El(st, arg) == [st |-> st, arg |-> arg]

\* The code string once line 99 has produced it.
Code == code_to_analyze[1]

\* An exception that escapes a statement ends the script run there.
Goto(next, exc) ==
    IF exc = ""
    THEN pc' = next /\ error' = error
    ELSE pc' = "aborted" /\ error' = exc

Init ==
    /\ GOOGLE_API_KEY \in Keys
    /\ uploaded_file \in UploadedFiles
    /\ github_url \in GithubUrls
    /\ code_input \in PastedTexts
    /\ button \in BOOLEAN
    /\ code_to_analyze = None
    /\ question = ""
    /\ answer = ""
    /\ pc = "resolve"
    /\ page = <<>>
    /\ calls = <<>>
    /\ prompts = <<>>
    /\ fetched = <<>>
    /\ procs = <<>>
    /\ files = {}
    /\ error = ""
    /\ renders = 1
    /\ last = None

\* Lines 95-101: resolve the input and choose the branch of line 101.
Resolve ==
    /\ pc = "resolve"
    /\ \E o \in HttpOutcomes :
         LET r == ResolveInput(uploaded_file, github_url, code_input, o) IN
         /\ fetched' = fetched \o r.gets
         /\ code_to_analyze' = IF r.exc = "" THEN Some(r.ret) ELSE None
         /\ Goto(IF r.ret # "" THEN "review" ELSE "warning", r.exc)
    /\ UNCHANGED <<GOOGLE_API_KEY, widgets, question, answer, page, calls,
                   prompts, procs, files, renders, last>>

\* Lines 102-103.
Review ==
    /\ pc = "review"
    /\ \E o \in ModelOutcomes :
         LET r == analyze_code(Code, o) IN
         /\ calls' = Append(calls, "analyze_code")
         /\ prompts' = prompts \o r.prompts
         /\ page' = page \o <<El("subheader", "Code Analysis Results")>>
                         \o (IF r.exc = "" THEN <<El("write", r.ret)>> ELSE <<>>)
         /\ Goto("linter", r.exc)
    /\ UNCHANGED <<GOOGLE_API_KEY, widgets, code_to_analyze, question, answer,
                   fetched, procs, files, renders, last>>

\* Lines 105-110: the temporary file is made and written, the linter runs
\* on it, and os.remove is reached only when run_linter returns.
Linter ==
    /\ pc = "linter"
    /\ \E o \in ProcOutcomes :
         LET temp_path == TempName(".py")
             r == run_linter(temp_path, "py", o) IN
         /\ calls' = Append(calls, "run_linter")
         /\ procs' = procs \o r.argv
         /\ files' = IF r.exc = "" THEN files ELSE files \cup {temp_path}
         /\ page' = page \o <<El("subheader", "Linter & Security Checks")>>
                         \o (IF r.exc = "" THEN <<El("code", r.ret)>> ELSE <<>>)
         /\ Goto("security", r.exc)
    /\ UNCHANGED <<GOOGLE_API_KEY, widgets, code_to_analyze, question, answer,
                   prompts, fetched, renders, last>>

\* Lines 112-113.
Security ==
    /\ pc = "security"
    /\ calls' = Append(calls, "detect_security_issues")
    /\ page' = page \o <<El("subheader", "Security & Vulnerability Detection"),
                         El("write", detect_security_issues(Code))>>
    /\ Goto("complexity", "")
    /\ UNCHANGED <<GOOGLE_API_KEY, widgets, code_to_analyze, question, answer,
                   prompts, fetched, procs, files, renders, last>>

\* Lines 115-116: the value calculate_complexity returns is formatted
\* with :.2f inside the f-string.
Complexity ==
    /\ pc = "complexity"
    /\ \E o \in CcOutcomes(Code) :
         LET f == Format2f(calculate_complexity(Code, o)) IN
         /\ page' = page \o <<El("subheader", "Code Complexity Analysis")>>
                         \o (IF f.exc = ""
                             THEN <<El("write", "Cyclomatic Complexity: " \o f.ret)>>
                             ELSE <<>>)
         /\ Goto("coverage", f.exc)
    /\ calls' = Append(calls, "calculate_complexity")
    /\ UNCHANGED <<GOOGLE_API_KEY, widgets, code_to_analyze, question, answer,
                   prompts, fetched, procs, files, renders, last>>

\* Lines 118-119.
Coverage ==
    /\ pc = "coverage"
    /\ \E o \in ProcOutcomes :
         LET r == check_test_coverage(o) IN
         /\ procs' = procs \o r.argv
         /\ page' = page \o <<El("subheader", "Testing Coverage & Best Practices")>>
                         \o (IF r.exc = "" THEN <<El("code", r.ret)>> ELSE <<>>)
         /\ Goto("performance", r.exc)
    /\ calls' = Append(calls, "check_test_coverage")
    /\ UNCHANGED <<GOOGLE_API_KEY, widgets, code_to_analyze, question, answer,
                   prompts, fetched, files, renders, last>>

\* Lines 121-122.
Performance ==
    /\ pc = "performance"
    /\ calls' = Append(calls, "optimize_performance")
    /\ page' = page \o <<El("subheader", "Performance Optimization"),
                         El("write", optimize_performance(Code))>>
    /\ Goto("integration", "")
    /\ UNCHANGED <<GOOGLE_API_KEY, widgets, code_to_analyze, question, answer,
                   prompts, fetched, procs, files, renders, last>>

IntegrationReminder ==
    "Ensure this bot runs on PRs, integrates with GitHub Actions, and triggers automated reviews."

\* Lines 124-125.
Integration ==
    /\ pc = "integration"
    /\ page' = page \o <<El("subheader", "GitHub & CI/CD Integration"),
                         El("write", IntegrationReminder)>>
    /\ Goto("button", "")
    /\ UNCHANGED <<GOOGLE_API_KEY, widgets, code_to_analyze, question, answer,
                   calls, prompts, fetched, procs, files, renders, last>>

InputNotice == "Please upload a file, enter a GitHub URL, or paste your code."

\* Lines 126-127.
Warning ==
    /\ pc = "warning"
    /\ page' = Append(page, El("warning", InputNotice))
    /\ Goto("button", "")
    /\ UNCHANGED <<GOOGLE_API_KEY, widgets, code_to_analyze, question, answer,
                   calls, prompts, fetched, procs, files, renders, last>>

\* Lines 147-149: without a press of the button the script run ends.
Button ==
    /\ pc = "button"
    /\ IF ~button
       THEN /\ Goto("done", "")
            /\ UNCHANGED <<question, page>>
       ELSE \E o \in SpeechOutcomes :
              LET r == recognize_speech(o) IN
              /\ question' = r.ret
              /\ page' = page \o r.shown
                              \o (IF r.exc = ""
                                  THEN <<El("write", "You asked: " \o r.ret)>>
                                  ELSE <<>>)
              /\ Goto("voice_answer", r.exc)
    /\ UNCHANGED <<GOOGLE_API_KEY, widgets, code_to_analyze, answer, calls,
                   prompts, fetched, procs, files, renders, last>>

\* Line 150.
VoiceAnswer ==
    /\ pc = "voice_answer"
    /\ \E o \in ModelOutcomes :
         LET r == analyze_code(question, o) IN
         /\ calls' = Append(calls, "analyze_code")
         /\ prompts' = prompts \o r.prompts
         /\ answer' = r.ret
         /\ Goto("voice_speak", r.exc)
    /\ UNCHANGED <<GOOGLE_API_KEY, widgets, code_to_analyze, question, page,
                   fetched, procs, files, renders, last>>

\* Lines 151-157.
VoiceSpeak ==
    /\ pc = "voice_speak"
    /\ \E o \in TtsOutcomes :
         LET r == text_to_speech(answer, TempName(".mp3"), o) IN
         /\ files' = files \cup r.created
         /\ page' = page \o (IF r.exc = ""
                             THEN <<El("audio", r.ret),
                                    El("download_button", "ai_response.mp3"),
                                    El("write", answer)>>
                             ELSE <<>>)
         /\ Goto("done", r.exc)
    /\ UNCHANGED <<GOOGLE_API_KEY, widgets, code_to_analyze, question, answer,
                   calls, prompts, fetched, procs, renders, last>>

\* Streamlit runs the script again on every interaction.  An interaction
\* is a change of one input widget (st.button then returns False) or a
\* press of the button (the input widgets keep their values).  The process
\* (its credential, the files on its disk) goes on.
Interactions ==
    { [uploaded_file |-> f, github_url |-> github_url,
       code_input |-> code_input, button |-> FALSE] :
          f \in UploadedFiles \ {uploaded_file} }
    \cup { [uploaded_file |-> uploaded_file, github_url |-> u,
            code_input |-> code_input, button |-> FALSE] :
               u \in GithubUrls \ {github_url} }
    \cup { [uploaded_file |-> uploaded_file, github_url |-> github_url,
            code_input |-> t, button |-> FALSE] :
               t \in PastedTexts \ {code_input} }
    \cup { [uploaded_file |-> uploaded_file, github_url |-> github_url,
            code_input |-> code_input, button |-> TRUE] }

Rerun ==
    /\ pc \in {"done", "aborted"}
    /\ renders < MaxRenders
    /\ renders' = renders + 1
    /\ \E w \in Interactions :
         /\ uploaded_file' = w.uploaded_file
         /\ github_url' = w.github_url
         /\ code_input' = w.code_input
         /\ button' = w.button
    /\ code_to_analyze' = None
    /\ question' = ""
    /\ answer' = ""
    /\ pc' = "resolve"
    /\ page' = <<>>
    /\ calls' = <<>>
    /\ prompts' = <<>>
    /\ fetched' = <<>>
    /\ procs' = <<>>
    /\ error' = ""
    /\ UNCHANGED <<GOOGLE_API_KEY, files, last>>

(***************************************************************************)
(* Direct calls.  The functions are also called one at a time with         *)
(* arguments the page never gives them (a language tag other than "py",    *)
(* generate_unit_tests, which no statement of the script calls), as a      *)
(* unit test with mocked collaborators does.  last holds the call, the     *)
(* collaborator's outcome and the result.                                  *)
(***************************************************************************)
Observation(fn, arg, lang, outcome, res) ==
    Some([fn |-> fn, arg |-> arg, lang |-> lang, outcome |-> outcome,
          res |-> res])

\* What a direct call leaves alone: the state of the script run.
script == <<GOOGLE_API_KEY, widgets, code_to_analyze, question, answer, pc,
            page, calls, prompts, fetched, procs, files, error, renders>>

UnitInit ==
    /\ GOOGLE_API_KEY \in Keys
    /\ uploaded_file = None
    /\ github_url = ""
    /\ code_input = ""
    /\ button = FALSE
    /\ code_to_analyze = None
    /\ question = ""
    /\ answer = ""
    /\ pc = "unit"
    /\ page = <<>>
    /\ calls = <<>>
    /\ prompts = <<>>
    /\ fetched = <<>>
    /\ procs = <<>>
    /\ files = {}
    /\ error = ""
    /\ renders = 1
    /\ last = None

\* Texts given to the functions that take the code.
SqlHeads ==
    { "SELECT * FROM t WHERE id", "select * from t where id",
      "SELECT *\nFROM t WHERE id", "SELECT id FROM t" }

SqlTails == { "=5", "=?", " = ?", "=", "=? AND n=7", "=?\n", "<5" }

TextHeads == { "", "password = \"x\"\n", "q = \"" }

TextEnds == { "", "<script>alert(1)</script>", "\"; y=1" }

UnitTexts ==
    { a \o h \o t \o z :
        a \in TextHeads, h \in SqlHeads, t \in SqlTails, z \in TextEnds }
    \cup { "", "def f(x):\n  return x", "MyToken", "<SCRIPT></SCRIPT>",
           "<script>\n</script>" }

\* The segments of the GitHub URLs given to fetch_github_code.
Users == { "u", "blobfish" }

Repos == { "r", "github.com" }

Refs == { "main" }

Paths == { "f.py", "blobs/f.py", "src/blob/f.py" }

BlobUrl(user, repo, ref, path) ==
    "https://github.com/" \o user \o "/" \o repo \o "/blob/" \o ref \o "/" \o path

UnitUrls ==
    { BlobUrl(u, r, b, f) : u \in Users, r \in Repos, b \in Refs, f \in Paths }
    \cup { "http://example.com/f.py", "github.com/u/r/blob/main/f.py",
           "https://raw.githubusercontent.com/u/r/main/f.py" }

Languages == { "py", "js", "java", "cpp", "ts", "go", "PY", "" }

UnitAnalyzeCode ==
    /\ pc = "unit" /\ last = None
    /\ \E code \in {"", "def f(x):\n  return x", "what does f do"} :
         \E o \in ModelOutcomes :
           last' = Observation("analyze_code", code, "", o,
                               analyze_code(code, o))
    /\ UNCHANGED script

UnitGenerateUnitTests ==
    /\ pc = "unit" /\ last = None
    /\ \E code \in {"", "def f(x):\n  return x"} :
         \E o \in ModelOutcomes :
           last' = Observation("generate_unit_tests", code, "", o,
                               generate_unit_tests(code, o))
    /\ UNCHANGED script

UnitRunLinter ==
    /\ pc = "unit" /\ last = None
    /\ \E language \in Languages :
         \E o \in ProcOutcomes :
           last' = Observation("run_linter", "/tmp/tmp1.py", language, o,
                               run_linter("/tmp/tmp1.py", language, o))
    /\ UNCHANGED script

UnitDetectSecurityIssues ==
    /\ pc = "unit" /\ last = None
    /\ \E code \in UnitTexts :
         last' = Observation("detect_security_issues", code, "", None,
                             [ret |-> detect_security_issues(code), exc |-> ""])
    /\ UNCHANGED script

UnitFetchGithubCode ==
    /\ pc = "unit" /\ last = None
    /\ \E url \in UnitUrls :
         \E o \in HttpOutcomes :
           last' = Observation("fetch_github_code", url, "", o,
                               fetch_github_code(url, o))
    /\ UNCHANGED script

Next ==
    \/ Resolve
    \/ Review
    \/ Linter
    \/ Security
    \/ Complexity
    \/ Coverage
    \/ Performance
    \/ Integration
    \/ Warning
    \/ Button
    \/ VoiceAnswer
    \/ VoiceSpeak
    \/ Rerun
    \/ UnitAnalyzeCode
    \/ UnitGenerateUnitTests
    \/ UnitRunLinter
    \/ UnitDetectSecurityIssues
    \/ UnitFetchGithubCode

Spec == (Init \/ UnitInit) /\ [][Next]_vars

(***************************************************************************)
(* Properties.                                                             *)
(***************************************************************************)
Count(q, x) == Cardinality({ i \in 1..Len(q) : q[i] = x })

Shown(st, arg) == \E i \in 1..Len(page) : page[i] = El(st, arg)

\* A script run (not a direct call), and one that has ended.
Rendering == pc # "unit"

Finished == pc \in {"done", "aborted"}

\* The script run is past the analysis sections.
PastAnalysis == pc \in {"button", "voice_answer", "voice_speak", "done"}

Resolved == Rendering /\ code_to_analyze # None

\* The last direct call was one of fn.
Called(fn) == last # None /\ last[1].fn = fn

\* C1 (as claimed): no error aborts the render, and a render of a
\* non-empty input that is past the analysis sections has rendered the
\* final integration reminder.
C1_NoErrorAbortsRender ==
    Rendering =>
        /\ pc # "aborted"
        /\ error = ""
        /\ (PastAnalysis /\ Resolved /\ Code # "")
               => Shown("write", IntegrationReminder)

\* The components section 1 of the specification names.
Components ==
    { "analyze_code", "run_linter", "detect_security_issues",
      "calculate_complexity", "check_test_coverage", "optimize_performance",
      "generate_unit_tests" }

\* C2 (as claimed): a render of a non-empty input that ran to its end
\* without the voice action has invoked every named component exactly
\* once.
C2_EveryComponentOnce ==
    (pc = "done" /\ ~button /\ Resolved /\ Code # "")
        => \A c \in Components : Count(calls, c) = 1

\* No uploaded file, an empty URL, a pasted text of white space only.
NoInput ==
    /\ uploaded_file = None
    /\ github_url = ""
    /\ \A i \in 1..Len(code_input) : Char(code_input, i) \in {" ", "\t", "\n", "\r"}

Warnings == Count(page, El("warning", InputNotice))

\* C3 (as claimed): with no input no analysis component, the AI review
\* included, is invoked during the render, and one notice is shown.
C3_NoInputNoComponent ==
    (Rendering /\ NoInput) =>
        /\ calls = <<>>
        /\ Finished => Warnings = 1

\* C3 (amended): with no input the analysis pipeline invokes no
\* component, starts no subprocess and fetches nothing, and exactly one
\* notice is shown; analyze_code runs in that render only on the voice
\* path (the button was pressed), once, on the spoken question.
C3_NoInputNoPipeline ==
    (Rendering /\ NoInput) =>
        /\ \A c \in Components \ {"analyze_code"} : Count(calls, c) = 0
        /\ procs = <<>> /\ fetched = <<>>
        /\ ~Shown("subheader", "Code Analysis Results")
        /\ pc \notin {"resolve", "warning"} => Warnings = 1
        /\ calls \in { <<>>, <<"analyze_code">> }
        /\ calls # <<>> =>
               /\ button
               /\ pc \in {"voice_speak", "done", "aborted"}
               /\ prompts \in { <<>>, <<ReviewPrompt(question)>> }
        /\ ~button => calls = <<>>
        /\ (button /\ pc \in {"voice_speak", "done"}) => calls = <<"analyze_code">>

\* C3: a render with white space as the only input and the button pressed
\* has ended, with one notice and the one call of the voice path.
C3_Witness ==
    /\ Rendering /\ NoInput /\ code_input # "" /\ button
    /\ pc = "done" /\ Warnings = 1 /\ calls = <<"analyze_code">>

\* What fetch_github_code can return.
UrlResults ==
    { o.text : o \in { h \in HttpOutcomes : h.kind = "response" } }
    \cup { "Error fetching code.", "Invalid GitHub URL." }

\* C4: the code string is picked by priority upload > URL > pasted text.
\* With an uploaded file the string is the file's decoded content and
\* nothing is fetched; without a file and with a URL it is a result of
\* fetch_github_code; only without both is it the stripped pasted text.
C4_InputPriority ==
    Rendering =>
        /\ uploaded_file # None => fetched = <<>>
        /\ (Resolved /\ uploaded_file # None)
               => Code = Utf8Decode(uploaded_file[1]).ret
        /\ (Resolved /\ uploaded_file = None /\ github_url # "")
               => /\ Code \in UrlResults
                  /\ Len(fetched) <= 1
                  /\ Code \notin {"Invalid GitHub URL."} => Len(fetched) = 1
        /\ (Resolved /\ uploaded_file = None /\ github_url = "")
               => Code = Strip(code_input) /\ fetched = <<>>

\* C4: a file, a URL and a pasted text are all given and the file's
\* content was picked without a fetch.
C4_Witness ==
    /\ Resolved /\ pc = "review"
    /\ uploaded_file # None /\ github_url # "" /\ Strip(code_input) # ""
    /\ Code = "def f(x):\n  return x"
    /\ fetched = <<>>

\* C5: without a credential analyze_code and generate_unit_tests return
\* their fixed error string and send nothing to the model, for every text
\* and whatever the model would have answered; the same on the page and
\* on the voice path.
C5_NoCredentialNoModelCall ==
    GOOGLE_API_KEY \in {None, Some("")} =>
        /\ prompts = <<>>
        /\ Called("analyze_code") =>
               /\ last[1].res.ret = "Error: API key not found. Please check .env file."
               /\ last[1].res.exc = ""
               /\ last[1].res.prompts = <<>>
        /\ Called("generate_unit_tests") =>
               /\ last[1].res.ret = "Error: API key missing!"
               /\ last[1].res.exc = ""
               /\ last[1].res.prompts = <<>>
        /\ (Rendering /\ Count(calls, "run_linter") = 1) =>
               Shown("write", "Error: API key not found. Please check .env file.")
        /\ pc = "voice_speak" =>
               answer = "Error: API key not found. Please check .env file."
        /\ error # "ServiceUnavailable"

\* C5: generate_unit_tests was called with an empty credential on a text
\* the model would have answered.
C5_Witness ==
    /\ GOOGLE_API_KEY = Some("")
    /\ Called("generate_unit_tests")
    /\ last[1].arg # ""
    /\ last[1].outcome.kind = "text"
    /\ last[1].res.ret = "Error: API key missing!"

C7_BlobUrlFetchedRaw ==
    \A u \in Users : \A r \in Repos : \A b \in Refs : \A f \in Paths :
        (Called("fetch_github_code") /\ last[1].arg = BlobUrl(u, r, b, f))
        => last[1].res.gets =
             << "https://raw.githubusercontent.com/" \o u \o "/" \o r \o "/"
                    \o b \o "/" \o f >>

\* The word w stands in t at position i.
HasAt(t, i, w) == i + Len(w) - 1 <= Len(t) /\ SubSeq(t, i, i + Len(w) - 1) = w

\* No line break among the characters of t from i up to, not including, j.
OneLine(t, i, j) == \A p \in i..(j - 1) : Char(t, p) # "\n"

\* The positions of an = that follows "select ", " from " and " where ",
\* in this order and on the one line, in the case-folded text t.
SqlEquals(t) ==
    { l \in 1..Len(t) :
        /\ Char(t, l) = "="
        /\ \E i \in 1..l :
             /\ HasAt(t, i, "select ")
             /\ \E j \in (i + 7)..l :
                  /\ HasAt(t, j, " from ")
                  /\ \E k \in (j + 6)..l :
                       /\ HasAt(t, k, " where ")
                       /\ k + 7 <= l
                       /\ OneLine(t, i, l) }

\* The first character after position l that is not a blank, "" if none.
Operand(t, l) ==
    LET rest == { m \in (l + 1)..Len(t) : Char(t, m) # " " } IN
    IF rest = {} THEN ""
    ELSE Char(t, CHOOSE m \in rest : \A n \in rest : m <= n)

HasSqlFinding(ret) ==
    \E i \in 1..Len(ret) : HasAt(ret, i, SqlFinding)

\* C8 (as claimed): the SQL finding is reported exactly when the text has
\* a SELECT ... FROM ... WHERE ... = shape whose comparison is not the ?
\* placeholder.
C8_SqlFindingIffNotPlaceholder ==
    Called("detect_security_issues") =>
        LET t == ToLower(last[1].arg) IN
        HasSqlFinding(last[1].res.ret)
            <=> \E l \in SqlEquals(t) : Operand(t, l) \notin {"", "?", "\n"}

\* The findings a text must give, in the order secret, SQL, XSS.
ExpectedIssues(code) ==
    LET t == ToLower(code) IN
    (IF \E w \in {"apikey", "password", "secret", "token"} :
           \E i \in 1..Len(t) : HasAt(t, i, w)
     THEN <<"Possible hardcoded API key or password detected.">> ELSE <<>>)
    \o (IF \E l \in SqlEquals(t) : l < Len(t) /\ Char(t, l + 1) # "?"
        THEN <<"Potential SQL Injection risk detected.">> ELSE <<>>)
    \o (IF \E i \in 1..Len(t) :
             /\ HasAt(t, i, "<script>")
             /\ \E j \in (i + 8)..Len(t) :
                  HasAt(t, j, "</script>") /\ OneLine(t, i, j)
        THEN <<"Possible XSS vulnerability detected.">> ELSE <<>>)

\* C8 (amended): the SQL finding is reported exactly when, ignoring case,
\* one line of the text holds "SELECT ", then " FROM ", then " WHERE ",
\* then an = that is directly followed by a character other than ? (so
\* "id=5" and "id = ?" are reported, "id=?" is not); the findings come in
\* the order secret, SQL, XSS, joined by line breaks, and the fixed
\* "No security issues detected." stands for none.
C8_SqlFindingIffEqualsNotQuestionMark ==
    Called("detect_security_issues") =>
        LET want == ExpectedIssues(last[1].arg) IN
        last[1].res.ret = IF want = <<>> THEN "No security issues detected."
                          ELSE JoinLines(want)

\* C8: a text with a secret, a query whose placeholder follows a blank,
\* and a script tag gives the three findings in order.
C8_Witness ==
    /\ Called("detect_security_issues")
    /\ last[1].arg = "password = \"x\"\nSELECT * FROM t WHERE id = ?<script>alert(1)</script>"
    /\ last[1].res.ret = "Possible hardcoded API key or password detected.\nPotential SQL Injection risk detected.\nPossible XSS vulnerability detected."

\* C9: run_linter returns the fixed "not supported" string and starts no
\* subprocess for every language tag other than "py" and "js"; for "py"
\* and "js" it starts exactly one subprocess (pylint, eslint) on the file
\* and returns its standard output unchanged, or the fixed "tool not
\* found" string when the binary is absent.
C9_LinterByLanguage ==
    Called("run_linter") =>
        LET o == last[1].outcome
            res == last[1].res
        IN  IF last[1].lang \in {"py", "js"}
            THEN /\ res.argv = << <<IF last[1].lang = "py" THEN "pylint" ELSE "eslint",
                                    last[1].arg>> >>
                 /\ o.kind = "ran" => res.ret = o.stdout /\ res.exc = ""
                 /\ (o.kind = "raise" /\ o.exc = "FileNotFoundError") =>
                      /\ res.exc = ""
                      /\ res.ret = "Linter Error: Linter tool not found. Please install the necessary linter."
            ELSE /\ res.argv = <<>>
                 /\ res.exc = ""
                 /\ res.ret = "Linting not supported for this language."

\* C9: run_linter was called with the tag "ts" where the tool would run.
C9_Witness ==
    /\ Called("run_linter")
    /\ last[1].lang = "ts"
    /\ last[1].outcome.kind = "ran"
    /\ last[1].res.ret = "Linting not supported for this language."
    /\ last[1].res.argv = <<>>

\* C10 (as claimed): when a script run has completed, no temporary file
\* it made (the linter's file, the synthesized audio) is left on disk.
C10_NoTempFileLeft ==
    (Rendering /\ pc = "done")
        => TempName(".py") \notin files /\ TempName(".mp3") \notin files

====
